---------------------------- MODULE Spec2Model ----------------------------
(***************************************************************************)
(* Model of bot.py: the wastewater plot bot.                               *)
(*                                                                         *)
(*   Spec       runs of main() that share one marker file                  *)
(*   SpecFetch  the pagination loop of get_data()                          *)
(*   SpecFmt    the footer timestamp formatter render_plot.fmt             *)
(*                                                                         *)
(* Time is counted in minutes.  A timezone-aware datetime is a record      *)
(* [wall, off]: the wall-clock minutes and the UTC offset in minutes; the  *)
(* instant it denotes is wall - off.  Text is a sequence of one-character  *)
(* strings.  In isoformat text the calendar date is abbreviated to a       *)
(* two-digit day number; the time of day and the UTC offset are rendered   *)
(* as Python renders them.                                                 *)
(***************************************************************************)
EXTENDS Integers, Sequences, FiniteSets, TLC

VARIABLES
    \* ---- main(): options and locals of the current run
    pc,             \* position of the current run inside main()
    tweet,          \* --tweet
    toot,           \* --toot
    last_run_file,  \* TRUE iff --last-run-file is given (fixed for a deployment)
    last_updated,   \* data.last_updated, an aware datetime
    now,            \* dt.datetime.now(tz=TZ) of the run, an aware datetime
    last_run,       \* what the guard parsed from the marker file
    figure,         \* TRUE once render_plot has run
    responses,      \* the list of post references
    \* ---- the world around main()
    markerFile,     \* the file at last_run_file: [exists, text]
    clock,          \* wall time of the machine, an instant
    \* ---- history of the runs
    called,         \* publishers invoked in the current run
    raised,         \* publishers that raised in the current run
    wrote,          \* TRUE iff the current run executed write_text
    markerAtStart,  \* markerFile when the current run started
    prev,           \* the previous run: [ran, wrote, lu]
    posted,         \* <<platform, instant>> pairs posted successfully
    reposted,       \* pairs posted successfully more than once
    runs,           \* number of runs started
    \* ---- get_data(): the pagination loop
    fpc, server, chain, last, rows, requested,
    \* ---- render_plot.fmt
    fmtPc, ts, text

mainVars == <<pc, tweet, toot, last_run_file, last_updated, now, last_run, figure,
              responses, markerFile, clock, called, raised, wrote, markerAtStart,
              prev, posted, reposted, runs>>
fetchVars == <<fpc, server, chain, last, rows, requested>>
fmtVars == <<fmtPc, ts, text>>
vars == <<mainVars, fetchVars, fmtVars>>

-----------------------------------------------------------------------------
(* Bounds *)

\* runs of main() in one behaviour
MaxRuns == 2
\* the clock and the upstream timestamps take the values 1440 + 15*k, k \in 0..MaxTick
MaxTick == 3
\* pages of the upstream listing
MaxPages == 3
\* rows on one page
MaxRowsPerPage == 1

-----------------------------------------------------------------------------
(* Text helpers *)

Digit == <<"0", "1", "2", "3", "4", "5", "6", "7", "8", "9">>

IsDigit(c) == \E i \in 1..10 : Digit[i] = c

DigitVal(c) == CHOOSE i \in 0..9 : Digit[i + 1] = c

\* str(n) for n >= 0: decimal digits, no padding
RECURSIVE Str(_)
Str(n) == IF n < 10 THEN <<Digit[n + 1]>> ELSE Str(n \div 10) \o <<Digit[(n % 10) + 1]>>

\* a two-digit zero-padded field, as %M and isoformat's fields
Pad2(n) == <<Digit[((n \div 10) % 10) + 1], Digit[(n % 10) + 1]>>

AllDigits(s) == \A i \in 1..Len(s) : IsDigit(s[i])

RECURSIVE ToNat(_)
ToNat(s) == IF s = <<>> THEN 0
            ELSE 10 * ToNat(SubSeq(s, 1, Len(s) - 1)) + DigitVal(s[Len(s)])

Abs(n) == IF n < 0 THEN 0 - n ELSE n

-----------------------------------------------------------------------------
(* Datetimes *)

\* the UTC offset of America/Vancouver at an instant; the model's time window
\* spans the end of daylight saving time (PDT, -7h, then PST, -8h)
utcoffset(instant) == IF instant < 1440 + 15 THEN 0 - 420 ELSE 0 - 480

\* ts.astimezone(TZ) of an instant
astimezone(instant) == [wall |-> instant + utcoffset(instant), off |-> utcoffset(instant)]

\* the instant an aware datetime denotes; comparison and subtraction of aware
\* datetimes work on it
Instant(d) == d.wall - d.off

TimeGrid == {1440 + 15 * k : k \in 0..MaxTick}

\* datetime.isoformat() of an aware datetime: "DDTHH:MM+HH:MM"
isoformatNaive(d) ==
    Pad2(d.wall \div 1440) \o <<"T">> \o Pad2((d.wall % 1440) \div 60) \o <<":">>
        \o Pad2(d.wall % 60)

isoformat(d) ==
    Pad2(d.wall \div 1440) \o <<"T">> \o Pad2((d.wall % 1440) \div 60) \o <<":">>
        \o Pad2(d.wall % 60)
        \o <<IF d.off < 0 THEN "-" ELSE "+">>
        \o Pad2(Abs(d.off) \div 60) \o <<":">> \o Pad2(Abs(d.off) % 60)

\* the parse of "DDTHH:MM"; ok is FALSE where fromisoformat raises ValueError
ParseLocal(s) ==
    IF /\ Len(s) = 8
       /\ AllDigits(SubSeq(s, 1, 2)) /\ s[3] = "T"
       /\ AllDigits(SubSeq(s, 4, 5)) /\ s[6] = ":"
       /\ AllDigits(SubSeq(s, 7, 8))
       /\ ToNat(SubSeq(s, 4, 5)) < 24 /\ ToNat(SubSeq(s, 7, 8)) < 60
    THEN [ok |-> TRUE,
          wall |-> 1440 * ToNat(SubSeq(s, 1, 2)) + 60 * ToNat(SubSeq(s, 4, 5))
                      + ToNat(SubSeq(s, 7, 8))]
    ELSE [ok |-> FALSE, wall |-> 0]

\* the parse of "+HH:MM" / "-HH:MM"
ParseOffset(s) ==
    IF /\ Len(s) = 6
       /\ s[1] \in {"+", "-"}
       /\ AllDigits(SubSeq(s, 2, 3)) /\ s[4] = ":"
       /\ AllDigits(SubSeq(s, 5, 6))
       /\ ToNat(SubSeq(s, 2, 3)) < 24 /\ ToNat(SubSeq(s, 5, 6)) < 60
    THEN [ok |-> TRUE,
          off |-> (IF s[1] = "-" THEN 0 - 1 ELSE 1)
                     * (60 * ToNat(SubSeq(s, 2, 3)) + ToNat(SubSeq(s, 5, 6)))]
    ELSE [ok |-> FALSE, off |-> 0]

\* dt.datetime.fromisoformat(s): kind "error" where it raises ValueError,
\* "naive" for text without an offset, "aware" for text with one
fromisoformat(s) ==
    IF Len(s) = 8 /\ ParseLocal(s).ok
    THEN [kind |-> "naive", wall |-> ParseLocal(s).wall, off |-> 0]
    ELSE IF /\ Len(s) = 14
            /\ ParseLocal(SubSeq(s, 1, 8)).ok
            /\ ParseOffset(SubSeq(s, 9, 14)).ok
    THEN [kind |-> "aware",
          wall |-> ParseLocal(SubSeq(s, 1, 8)).wall,
          off |-> ParseOffset(SubSeq(s, 9, 14)).off]
    ELSE [kind |-> "error", wall |-> 0, off |-> 0]

-----------------------------------------------------------------------------
(* main(): the publish guard *)

Unbound == [kind |-> "unbound", wall |-> 0, off |-> 0]

NoFile == [exists |-> FALSE, text |-> <<>>]

\* last_run >= data.last_updated, on aware datetimes
MarkerUpToDateStrict(marker, updated) == Instant(marker) > Instant(updated)

MarkerUpToDate(marker, updated) == Instant(marker) >= Instant(updated)

\* (now - data.last_updated) < dt.timedelta(minutes=30)
SettleMinutes == 30

StillSettlingInverted(n, updated) == Instant(n) - Instant(updated) > SettleMinutes

StillSettling(n, updated) == Instant(n) - Instant(updated) < SettleMinutes

\* except Exception: pass -- the run goes on to render_plot
OnMarkerErrorFatal == "aborted"

OnMarkerError == "render"

\* the value bound to last_run by line 243, Unbound when read_text or
\* fromisoformat raised
ReadMarker(file) ==
    IF ~file.exists THEN Unbound
    ELSE IF fromisoformat(file.text).kind = "error" THEN Unbound
    ELSE fromisoformat(file.text)

\* where the run stands after the guard
GuardOutcome(file, updated, n) ==
    LET m == ReadMarker(file) IN
    IF m.kind = "unbound" THEN OnMarkerError            \* OSError / ValueError
    ELSE IF m.kind = "naive" THEN OnMarkerError         \* TypeError of >=
    ELSE IF MarkerUpToDate(m, updated) THEN "returned"
    ELSE IF StillSettling(n, updated) THEN "returned"
    ELSE "render"

\* (tweet or toot) and last_run_file
ShouldWriteMarkerAnyRun(tw, to, lrf) == lrf

ShouldWriteMarker(tw, to, lrf) == (tw \/ to) /\ lrf

\* the text written to the marker file
MarkerTextNaive(updated) == isoformatNaive(updated)

MarkerText(updated) == isoformat(updated)

-----------------------------------------------------------------------------
(* main(): one run after another *)

Ended == pc \in {"idle", "done", "returned", "aborted"}

\* marker files a deployment can start with: none, one that is not a
\* timestamp, and one holding a timestamp without an offset
InitialMarkers ==
    { NoFile,
      [exists |-> TRUE, text |-> <<>>],
      [exists |-> TRUE, text |-> <<"x">>],
      [exists |-> TRUE, text |-> isoformatNaive(astimezone(1440))] }

InitMain ==
    /\ pc = "idle"
    /\ tweet = FALSE /\ toot = FALSE
    /\ last_run_file \in BOOLEAN
    /\ last_updated = astimezone(1440)
    /\ now = astimezone(1440)
    /\ last_run = Unbound
    /\ figure = FALSE
    /\ responses = <<>>
    /\ markerFile \in (IF last_run_file THEN InitialMarkers ELSE {NoFile})
    /\ clock = 1440
    /\ called = {} /\ raised = {}
    /\ wrote = FALSE
    /\ markerAtStart = markerFile
    /\ prev = [ran |-> FALSE, wrote |-> FALSE, lu |-> astimezone(1440)]
    /\ posted = {} /\ reposted = {}
    /\ runs = 0

\* a run begins: the options are read, get_data() returns the snapshot
StartRun ==
    /\ Ended
    /\ runs < MaxRuns
    /\ \E tw \in BOOLEAN, to \in BOOLEAN, lu \in TimeGrid, t \in TimeGrid :
          /\ t >= clock
          /\ tweet' = tw /\ toot' = to
          /\ last_updated' = astimezone(lu)
          /\ clock' = t
          /\ now' = astimezone(t)
    /\ prev' = [ran |-> runs > 0, wrote |-> wrote, lu |-> last_updated]
    /\ pc' = "guard"
    /\ last_run' = Unbound
    /\ figure' = FALSE
    /\ responses' = <<>>
    /\ called' = {} /\ raised' = {}
    /\ wrote' = FALSE
    /\ markerAtStart' = markerFile
    /\ runs' = runs + 1
    /\ UNCHANGED <<last_run_file, markerFile, posted, reposted>>
    /\ UNCHANGED <<fetchVars, fmtVars>>

\* lines 241-251
Guard ==
    /\ pc = "guard"
    /\ IF last_run_file
       THEN /\ last_run' = ReadMarker(markerFile)
            /\ pc' = GuardOutcome(markerFile, last_updated, now)
       ELSE /\ last_run' = Unbound
            /\ pc' = "render"
    /\ UNCHANGED <<tweet, toot, last_run_file, last_updated, now, figure, responses,
                   markerFile, clock, called, raised, wrote, markerAtStart, prev,
                   posted, reposted, runs>>
    /\ UNCHANGED <<fetchVars, fmtVars>>

\* lines 253-269
Render ==
    /\ pc = "render"
    /\ figure' = TRUE
    /\ responses' = <<>>
    /\ pc' = "tweet"
    /\ UNCHANGED <<tweet, toot, last_run_file, last_updated, now, last_run,
                   markerFile, clock, called, raised, wrote, markerAtStart, prev,
                   posted, reposted, runs>>
    /\ UNCHANGED <<fetchVars, fmtVars>>

\* a publisher returns a post reference, or raises and the exception leaves main()
Publish(platform, enabled, next) ==
    IF ~enabled
    THEN /\ pc' = next
         /\ UNCHANGED <<responses, called, raised, posted, reposted>>
    ELSE /\ called' = called \cup {platform}
         /\ \/ /\ responses' = Append(responses, platform)
               /\ posted' = posted \cup {<<platform, Instant(last_updated)>>}
               /\ reposted' = IF <<platform, Instant(last_updated)>> \in posted
                              THEN reposted \cup {<<platform, Instant(last_updated)>>}
                              ELSE reposted
               /\ pc' = next
               /\ UNCHANGED raised
            \/ /\ raised' = raised \cup {platform}
               /\ pc' = "aborted"
               /\ UNCHANGED <<responses, posted, reposted>>

\* lines 271-275
Tweet ==
    /\ pc = "tweet"
    /\ Publish("twitter", tweet, "toot")
    /\ UNCHANGED <<tweet, toot, last_run_file, last_updated, now, last_run, figure,
                   markerFile, clock, wrote, markerAtStart, prev, runs>>
    /\ UNCHANGED <<fetchVars, fmtVars>>

\* lines 277-285
Toot ==
    /\ pc = "toot"
    /\ Publish("mastodon", toot, "mark")
    /\ UNCHANGED <<tweet, toot, last_run_file, last_updated, now, last_run, figure,
                   markerFile, clock, wrote, markerAtStart, prev, runs>>
    /\ UNCHANGED <<fetchVars, fmtVars>>

\* lines 287-291
Mark ==
    /\ pc = "mark"
    /\ IF ShouldWriteMarker(tweet, toot, last_run_file)
       THEN /\ markerFile' = [exists |-> TRUE, text |-> MarkerText(last_updated)]
            /\ wrote' = TRUE
       ELSE UNCHANGED <<markerFile, wrote>>
    /\ pc' = "done"
    /\ UNCHANGED <<tweet, toot, last_run_file, last_updated, now, last_run, figure,
                   responses, clock, called, raised, markerAtStart, prev, posted,
                   reposted, runs>>
    /\ UNCHANGED <<fetchVars, fmtVars>>

NextMain == StartRun \/ Guard \/ Render \/ Tweet \/ Toot \/ Mark

-----------------------------------------------------------------------------
(* Properties of main() *)

\* the guard of the current run has decided
GuardDecided == pc \in {"render", "tweet", "toot", "mark", "done", "returned", "aborted"}

\* the run went past the guard towards render_plot and the publishers
Proceeded == pc = "render" \/ figure

\* the marker the current run found, as fromisoformat reads it
FoundMarker == fromisoformat(markerAtStart.text)

FoundAware == markerAtStart.exists /\ FoundMarker.kind = "aware"

Elapsed == Instant(now) - Instant(last_updated)

Untouched == called = {} /\ responses = <<>> /\ ~wrote /\ markerFile = markerAtStart

Enabled == (IF tweet THEN {"twitter"} ELSE {}) \cup (IF toot THEN {"mastodon"} ELSE {})

\* the marker file holds exactly the timestamp d
MarkerHolds(d) ==
    /\ markerFile.exists
    /\ fromisoformat(markerFile.text) = [kind |-> "aware", wall |-> d.wall, off |-> d.off]

MarkerUnusable == ~markerAtStart.exists \/ FoundMarker.kind = "error"

\* C3: when the marker is absent or does not parse, the guard does not end the
\* run with an error and the run goes on to publish, whatever last_updated and
\* now are, also when the data is younger than 30 minutes.
C3_FailOpen ==
    (GuardDecided /\ last_run_file /\ MarkerUnusable) =>
        /\ Proceeded
        /\ pc # "returned"
        /\ pc = "aborted" => raised # {}
        /\ pc \in {"mark", "done"} => called = Enabled

C3_Witness ==
    /\ pc = "done" /\ last_run_file
    /\ markerAtStart.exists /\ FoundMarker.kind = "error"
    /\ Elapsed < 30
    /\ responses = <<"twitter", "mastodon">>

\* C4: with tweet and toot both enabled, each publisher is called whether or not
\* the other one raised.
C4_PublishersIndependent ==
    (pc \in {"done", "aborted"} /\ figure /\ tweet /\ toot) =>
        called = {"twitter", "mastodon"}

\* C5: in a run with a marker file configured, if a publisher's post succeeded
\* then at the end of the run the marker file holds the snapshot's
\* last_updated, also when another publisher failed.
C5_MarkerAfterAnySuccess ==
    (pc \in {"done", "aborted"} /\ last_run_file /\ responses # <<>>) =>
        MarkerHolds(last_updated)

\* C6: the marker file is written only in a run in which a post succeeded (not
\* when the guard rejects, when no publisher is enabled, or when a publisher
\* raised), and holds exactly last_updated; a run with tweet alone, no marker
\* file yet and a succeeding publisher posts once and writes the marker.
C6_MarkerWrittenOnlyAfterPublish ==
    /\ (wrote \/ markerFile # markerAtStart) =>
          /\ pc = "done"
          /\ responses # <<>>
          /\ raised = {}
          /\ MarkerHolds(last_updated)
    /\ (pc = "done" /\ last_run_file /\ tweet /\ ~toot /\ ~markerAtStart.exists) =>
          /\ responses = <<"twitter">>
          /\ wrote
          /\ MarkerHolds(last_updated)

C6_Witness ==
    /\ pc = "done" /\ last_run_file /\ tweet /\ ~toot /\ ~markerAtStart.exists
    /\ wrote
    /\ markerFile.text = isoformat(last_updated)

\* C7: the marker a run reads back after a run that published and wrote the
\* marker equals that run's last_updated exactly, and with last_updated
\* unchanged the run does not publish.
C7_MarkerRoundTrip ==
    (GuardDecided /\ prev.ran /\ prev.wrote) =>
        /\ last_run = [kind |-> "aware", wall |-> prev.lu.wall, off |-> prev.lu.off]
        /\ last_updated = prev.lu => pc = "returned" /\ ~figure /\ Untouched

C7_Witness ==
    /\ pc = "returned" /\ prev.ran /\ prev.wrote
    /\ last_updated = prev.lu
    /\ last_updated.off = 0 - 480
    /\ Elapsed >= 30
    /\ tweet

\* C8: over runs that share one configured marker file, no dataset version is
\* posted successfully to the same platform more than once.
C8_NoDuplicatePost == last_run_file => reposted = {}

-----------------------------------------------------------------------------
(* get_data(): the pagination loop, lines 50-60 *)

RowIds == {"a", "b"}

\* the result lists a page can carry
PageResults ==
    UNION {[1..n -> RowIds] : n \in 0..MaxRowsPerPage}

\* the orders in which the listing's pages can be chained; the listing URL
\* (url 1) is the head of every chain
Chains ==
    UNION {{c \in [1..n -> 1..n] :
              /\ c[1] = 1
              /\ \A i, j \in 1..n : i # j => c[i] # c[j]} : n \in 1..MaxPages}

\* d.__next of the page at position i of chain c: absent on the last page
NextOf(c, i) == IF i < Len(c) THEN <<c[i + 1]>> ELSE <<>>

PositionIn(c, url) == CHOOSE i \in 1..Len(c) : c[i] = url

\* get(url): the page the server holds at url
get(url) == server[url]

\* rows.extend(last["d"]["results"])
ExtendRowsOverwrite(rs, page) == page.results

ExtendRows(rs, page) == rs \o page.results

NoPage == [results |-> <<>>, next |-> <<>>]

InitFetchVars ==
    /\ fpc = "start"
    /\ chain \in Chains
    /\ \E res \in [1..Len(chain) -> PageResults] :
          server = [u \in 1..Len(chain) |->
                      [results |-> res[u], next |-> NextOf(chain, PositionIn(chain, u))]]
    /\ last = NoPage
    /\ rows = <<>>
    /\ requested = <<>>

\* lines 50-54
FetchFirst ==
    /\ fpc = "start"
    /\ last' = get(1)
    /\ requested' = Append(requested, 1)
    /\ rows' = <<>>
    /\ fpc' = "loop"
    /\ UNCHANGED <<server, chain>>
    /\ UNCHANGED <<mainVars, fmtVars>>

\* lines 55-60: one turn of the while loop
LoopBody ==
    /\ fpc = "loop"
    /\ rows' = ExtendRows(rows, last)
    /\ IF last.next = <<>>
       THEN /\ fpc' = "broke"
            /\ UNCHANGED <<last, requested>>
       ELSE /\ last' = get(last.next[1])
            /\ requested' = Append(requested, last.next[1])
            /\ fpc' = "loop"
    /\ UNCHANGED <<server, chain>>
    /\ UNCHANGED <<mainVars, fmtVars>>

NextFetch == FetchFirst \/ LoopBody

\* the concatenation of the results of the pages of chain c from position i on
RECURSIVE ConcatFrom(_, _)
ConcatFrom(c, i) ==
    IF i > Len(c) THEN <<>> ELSE server[c[i]].results \o ConcatFrom(c, i + 1)

-----------------------------------------------------------------------------
(* Properties of the pagination loop *)

\* C10: for a chain of pages of which exactly the last has no next cursor, the
\* loop requests each page once in chain order, ends after the last page, and
\* has then accumulated the concatenation of the rows of all pages.
C10_PaginationCollectsAll ==
    /\ <>[](/\ fpc = "broke"
            /\ requested = chain
            /\ rows = ConcatFrom(chain, 1))
    /\ [](/\ Len(requested) <= Len(chain)
          /\ \A i \in 1..Len(requested) : requested[i] = chain[i])

C10_Witness ==
    /\ fpc = "broke"
    /\ chain = <<1, 3, 2>>
    /\ requested = chain
    /\ rows = <<"a", "b", "a">>

-----------------------------------------------------------------------------
(* render_plot.fmt, lines 176-180 *)

\* ts.strftime("%b")
MonthAbbr ==
    << <<"J", "a", "n">>, <<"F", "e", "b">>, <<"M", "a", "r">>, <<"A", "p", "r">>,
       <<"M", "a", "y">>, <<"J", "u", "n">>, <<"J", "u", "l">>, <<"A", "u", "g">>,
       <<"S", "e", "p">>, <<"O", "c", "t">>, <<"N", "o", "v">>, <<"D", "e", "c">> >>

\* (ts.hour % 12) or 12
Hour12NoFallback(h) == h % 12

Hour12(h) == IF h % 12 = 0 THEN 12 ELSE h % 12

\* ts.strftime(":%M %p")
TimeTail(t) == <<":">> \o Pad2(t.minute) \o <<" ">>
              \o (IF t.hour < 12 THEN <<"A", "M">> ELSE <<"P", "M">>)

\* f"{month} {ts.day}, {ts.year} {hour}{tail}"
fmt(t) ==
    MonthAbbr[t.month] \o <<" ">> \o Str(t.day) \o <<",", " ">> \o Str(t.year)
        \o <<" ">> \o Str(Hour12(t.hour)) \o TimeTail(t)

\* the timestamps formatted: every hour of the day, one- and two-digit days
\* and minutes, months of 31 days
Timestamps ==
    [year : {1999, 2024}, month : {1, 3, 12}, day : {1, 5, 9, 10, 31},
     hour : 0..23, minute : {0, 5, 9, 10, 59}]

InitFmtVars ==
    /\ fmtPc = "ready"
    /\ ts \in Timestamps
    /\ text = <<>>

Format ==
    /\ fmtPc = "ready"
    /\ text' = fmt(ts)
    /\ fmtPc' = "formatted"
    /\ UNCHANGED ts
    /\ UNCHANGED <<mainVars, fetchVars>>

NextFmt == Format

-----------------------------------------------------------------------------
(* Properties of fmt *)

\* the position of the first c in s
IndexOf(s, c) == CHOOSE i \in 1..Len(s) : s[i] = c /\ \A j \in 1..(i - 1) : s[j] # c

\* the fields of "Mon D, YYYY H:MM AM": the text is cut at its first comma and
\* its first colon
DayField(s) == SubSeq(s, 5, IndexOf(s, ",") - 1)

YearField(s) == SubSeq(s, IndexOf(s, ",") + 2, IndexOf(s, ",") + 5)

HourField(s) == SubSeq(s, IndexOf(s, ",") + 7, IndexOf(s, ":") - 1)

MinuteField(s) == SubSeq(s, IndexOf(s, ":") + 1, IndexOf(s, ":") + 2)

\* C9: fmt renders a timestamp as "Mon D, YYYY H:MM AM/PM" on a 12-hour clock,
\* with no leading zero on the day or the hour; the hour shown is h mod 12 with
\* 0 shown as 12, so it lies in 1..12; 2024-03-05T09:05 gives
\* "Mar 5, 2024 9:05 AM".
C9_FmtTwelveHourClock ==
    fmtPc = "formatted" =>
        /\ SubSeq(text, 1, 4) = MonthAbbr[ts.month] \o <<" ">>
        /\ DayField(text) # <<>> /\ AllDigits(DayField(text))
        /\ DayField(text)[1] # "0"
        /\ ToNat(DayField(text)) = ts.day
        /\ SubSeq(text, IndexOf(text, ","), IndexOf(text, ",") + 1) = <<",", " ">>
        /\ AllDigits(YearField(text)) /\ ToNat(YearField(text)) = ts.year
        /\ text[IndexOf(text, ",") + 6] = " "
        /\ HourField(text) # <<>> /\ AllDigits(HourField(text))
        /\ HourField(text)[1] # "0"
        /\ ToNat(HourField(text)) \in 1..12
        /\ ToNat(HourField(text)) % 12 = ts.hour % 12
        /\ AllDigits(MinuteField(text)) /\ ToNat(MinuteField(text)) = ts.minute
        /\ Len(text) = IndexOf(text, ":") + 5
        /\ SubSeq(text, Len(text) - 2, Len(text))
              = <<" ", (IF ts.hour < 12 THEN "A" ELSE "P"), "M">>
        /\ ts = [year |-> 2024, month |-> 3, day |-> 5, hour |-> 9, minute |-> 5] =>
              text = <<"M", "a", "r", " ", "5", ",", " ", "2", "0", "2", "4", " ",
                       "9", ":", "0", "5", " ", "A", "M">>

C9_Witness ==
    /\ fmtPc = "formatted"
    /\ ts = [year |-> 2024, month |-> 12, day |-> 9, hour |-> 0, minute |-> 5]
    /\ text = <<"D", "e", "c", " ", "9", ",", " ", "2", "0", "2", "4", " ",
                "1", "2", ":", "0", "5", " ", "A", "M">>

-----------------------------------------------------------------------------
(* Specifications *)

\* the components a specification leaves out stay parked
ParkedMain ==
    /\ pc = "off"
    /\ tweet = FALSE /\ toot = FALSE /\ last_run_file = FALSE
    /\ last_updated = astimezone(1440) /\ now = astimezone(1440)
    /\ last_run = Unbound /\ figure = FALSE /\ responses = <<>>
    /\ markerFile = NoFile /\ clock = 1440
    /\ called = {} /\ raised = {} /\ wrote = FALSE /\ markerAtStart = NoFile
    /\ prev = [ran |-> FALSE, wrote |-> FALSE, lu |-> astimezone(1440)]
    /\ posted = {} /\ reposted = {} /\ runs = 0

ParkedFetch ==
    /\ fpc = "off" /\ server = <<>> /\ chain = <<>> /\ last = NoPage
    /\ rows = <<>> /\ requested = <<>>

ParkedFmt ==
    /\ fmtPc = "off"
    /\ ts = [year |-> 2024, month |-> 1, day |-> 1, hour |-> 0, minute |-> 0]
    /\ text = <<>>

Init == InitMain /\ ParkedFetch /\ ParkedFmt

Next == NextMain

Spec == Init /\ [][Next]_vars

InitFetch == ParkedMain /\ InitFetchVars /\ ParkedFmt

SpecFetch == InitFetch /\ [][NextFetch]_vars /\ WF_vars(NextFetch)

InitFmt == ParkedMain /\ ParkedFetch /\ InitFmtVars

SpecFmt == InitFmt /\ [][NextFmt]_vars

=============================================================================
